---- MODULE Spec2Model ----
(***************************************************************************)
(* The SOLID teaching examples of src/Python/Nivel4/Modulo_7 as one state  *)
(* machine.  Every example (a group of classes of one file) is a separate  *)
(* set of objects: the examples share no state, so a behaviour exercises   *)
(* one of them, named by `demo`.  Each public operation of a class is one  *)
(* action; what the operation did (its return value, the exception it      *)
(* raised, the calls it made on its providers and the lines it printed) is *)
(* recorded in `last`.                                                     *)
(***************************************************************************)
EXTENDS Integers, Sequences, FiniteSets, TLC

VARIABLES
    demo,               \* the example this behaviour exercises
    notifiers,          \* OCP NotificationService.notifiers, per instance
    lists,              \* DIP: the list objects the caller owns (the heap)
    senders,            \* DIP NotificationService.senders: a reference to a list object
    database,           \* DIP UserService.database
    payment_processor,  \* DIP OrderService.payment_processor
    injected,           \* DIP: the provider the caller handed to the service's constructor
    rect,               \* LSP RectangleCorrect: _width, _height
    square,             \* LSP SquareCorrect: _side
    added,              \* OCP: the notifiers handed to add_notifier so far, per instance
    shape,              \* LSP: the Rectangle or Square object of the example
    obj,                \* ISP, LSP: the object the last construction produced
    tried,              \* ISP, LSP: the class the last construction was asked for
    last                \* the observation of the last call

vars == <<demo, notifiers, lists, senders, database, payment_processor, injected, rect, square,
          added, shape, obj, tried, last>>

-----------------------------------------------------------------------------
(* Bounds of the model *)

\* prices are 0, 20, ..., 20 * MaxPriceSteps (every rate of the source is exact on them)
MaxPriceSteps == 6
\* the senders the lists of the caller of the DIP example hold, in all
MaxSenders == 3
\* the notifiers the OCP NotificationService instances hold, in all
MaxNotifiers == 3
\* largest width, height or side of a shape
MaxDim == 2

-----------------------------------------------------------------------------
(* Python values.  Every value is a record of the same shape, so that any  *)
(* two of them can be compared.                                            *)

\* the value None
None == [t |-> "None", n |-> 0, s |-> <<>>]
\* a number
Num(x) == [t |-> "float", n |-> x, s |-> <<>>]
\* a str: the pieces of the (formatted) string
Str(parts) == [t |-> "str", n |-> 0, s |-> parts]
\* the arguments of a call that takes a number and a name
Args(x, name) == [t |-> "args", n |-> x, s |-> <<name>>]
\* a bool
Bool(b) == [t |-> "bool", n |-> IF b THEN 1 ELSE 0, s |-> <<>>]

\* a printed line: the literal text of the print and the value formatted into it
Line(text, v) == [text |-> text, arg |-> v]

\* one call made on a provider: who was called, the operation, the argument,
\* what it returned and what it raised ("none": it returned normally)
Call(target, op, arg, ret, raised) ==
    [target |-> target, op |-> op, arg |-> arg, ret |-> ret, raised |-> raised]

\* the observation of one public operation
Result(op, target, arg, ret, raised, calls, out) ==
    [op |-> op, target |-> target, arg |-> arg, ret |-> ret, raised |-> raised,
     calls |-> calls, out |-> out]

\* nothing has been called yet
NoCall == Result("none", "none", None, None, "none", <<>>, <<>>)

\* what a method of a provider does: the lines it prints, then its return
\* value, or the exception it raises
Does(out, ret, raised) == [out |-> out, ret |-> ret, raised |-> raised]

Prices == {20 * k : k \in 0..MaxPriceSteps}
Messages == {"code:123456", "Seu pedido foi aprovado!"}
Users == {"Maria Santos", "Pedro Oliveira"}
Ids == {"123", "456"}

-----------------------------------------------------------------------------
(* OCP: discounts (ocp_example.py)                                         *)

RegularRate == 5
PremiumRate == 10
VIPRate == 20
EmployeeRate == 30
SeasonalRate == 15

\* price * 0.xx, the rate as an integer percentage (exact on Prices)
Percent(price, rate) == (price * rate) \div 100

Discounts == {"NoDiscount", "RegularDiscount", "PremiumDiscount", "VIPDiscount",
              "EmployeeDiscount", "SeasonalDiscount"}

\* a variant with the rates of PremiumDiscount and VIPDiscount exchanged
Discount_calculate_swapped(d, price) ==
    CASE d = "NoDiscount" -> 0
      [] d = "RegularDiscount" -> Percent(price, RegularRate)
      [] d = "PremiumDiscount" -> Percent(price, VIPRate)
      [] d = "VIPDiscount" -> Percent(price, PremiumRate)
      [] d = "EmployeeDiscount" -> Percent(price, EmployeeRate)
      [] d = "SeasonalDiscount" -> Percent(price, SeasonalRate)

\* Discount.calculate of each subclass
Discount_calculate(d, price) ==
    CASE d = "NoDiscount" -> 0
      [] d = "RegularDiscount" -> Percent(price, RegularRate)
      [] d = "PremiumDiscount" -> Percent(price, PremiumRate)
      [] d = "VIPDiscount" -> Percent(price, VIPRate)
      [] d = "EmployeeDiscount" -> Percent(price, EmployeeRate)
      [] d = "SeasonalDiscount" -> Percent(price, SeasonalRate)

\* DiscountCalculator.calculate_final_price(price, discount)
DiscountCalculator_calculate_final_price(price, discount) ==
    LET discount_amount == Discount_calculate(discount, price)
    IN  Result("calculate_final_price", "DiscountCalculator", Args(price, discount),
               Num(price - discount_amount), "none",
               <<Call(discount, "calculate", Num(price), Num(discount_amount), "none")>>,
               <<>>)

CustomerTypes == {"regular", "premium", "vip", "employee", "seasonal", "student", ""}

\* a variant of the if/elif chain whose else branch raises
DiscountCalculatorBad_raising(customer_type, price) ==
    LET chain == CASE customer_type = "regular" -> Does(<<>>, Num(Percent(price, 0)), "none")
                   [] customer_type = "premium" -> Does(<<>>, Num(Percent(price, PremiumRate)), "none")
                   [] customer_type = "vip" -> Does(<<>>, Num(Percent(price, VIPRate)), "none")
                   [] customer_type = "employee" -> Does(<<>>, Num(Percent(price, EmployeeRate)), "none")
                   [] OTHER -> Does(<<>>, None, "ValueError")
    IN  Result("calculate_discount", "DiscountCalculatorBad", Args(price, customer_type),
               chain.ret, chain.raised, <<>>, <<>>)

\* DiscountCalculatorBad.calculate_discount(customer_type, price): the if/elif chain
DiscountCalculatorBad_calculate_discount(customer_type, price) ==
    LET chain == CASE customer_type = "regular" -> Num(Percent(price, 0))
                   [] customer_type = "premium" -> Num(Percent(price, PremiumRate))
                   [] customer_type = "vip" -> Num(Percent(price, VIPRate))
                   [] customer_type = "employee" -> Num(Percent(price, EmployeeRate))
                   [] OTHER -> Num(0)
    IN  Result("calculate_discount", "DiscountCalculatorBad", Args(price, customer_type),
               chain, "none", <<>>, <<>>)

-----------------------------------------------------------------------------
(* OCP: notifications (ocp_example.py)                                     *)

\* the two NotificationService instances of an example
Svcs == {"A", "B"}

\* the Notifier subclasses of the source, and FaultyNotifier: a subclass whose
\* send raises (the abstract contract allows any subclass)
Notifiers == {"EmailNotifier", "SMSNotifier", "PushNotifier", "WhatsAppNotifier",
              "FaultyNotifier"}

\* Notifier.send of each subclass
Notifier_send(notifier, message) ==
    CASE notifier = "EmailNotifier" ->
            Does(<<Line("Enviando e-mail: ", Str(<<message>>))>>, None, "none")
      [] notifier = "SMSNotifier" ->
            Does(<<Line("Enviando SMS: ", Str(<<message>>))>>, None, "none")
      [] notifier = "PushNotifier" ->
            Does(<<Line("Enviando notificacao push: ", Str(<<message>>))>>, None, "none")
      [] notifier = "WhatsAppNotifier" ->
            Does(<<Line("Enviando WhatsApp: ", Str(<<message>>))>>, None, "none")
      [] notifier = "FaultyNotifier" ->
            Does(<<>>, None, "RuntimeError")

\* NotificationService.__init__: self.notifiers = []
OCP_NotificationService__init__ == <<>>

\* a variant in which every instance appends to one shared list
OCP_add_notifier_shared(ns, svc, notifier) ==
    [s \in DOMAIN ns |-> Append(ns[svc], notifier)]

\* a variant that puts the new notifier in front of the earlier ones
OCP_add_notifier_prepend(ns, svc, notifier) ==
    [ns EXCEPT ![svc] = <<notifier>> \o @]

\* a variant that ignores a notifier the instance already holds
OCP_add_notifier_dedup(ns, svc, notifier) ==
    IF \E i \in 1..Len(ns[svc]) : ns[svc][i] = notifier
    THEN ns
    ELSE [ns EXCEPT ![svc] = Append(@, notifier)]

\* NotificationService.add_notifier(notifier), on instance svc of ns
OCP_add_notifier(ns, svc, notifier) ==
    [ns EXCEPT ![svc] = Append(@, notifier)]

\* the for loop of notify_all from its i-th notifier on: a send that raises
\* ends the loop and the exception leaves notify_all
RECURSIVE OCP_loop(_, _, _, _, _)
OCP_loop(list, i, message, calls, out) ==
    IF i > Len(list)
    THEN [calls |-> calls, out |-> out, raised |-> "none"]
    ELSE LET sent == Notifier_send(list[i], message)
             calls2 == Append(calls, Call(list[i], "send", Str(<<message>>),
                                          sent.ret, sent.raised))
         IN  IF sent.raised # "none"
             THEN [calls |-> calls2, out |-> out \o sent.out, raised |-> sent.raised]
             ELSE OCP_loop(list, i + 1, message, calls2, out \o sent.out)

\* a variant of notify_all that walks the list from its last notifier to its first
RECURSIVE OCP_loop_reversed(_, _, _, _, _)
OCP_loop_reversed(list, i, message, calls, out) ==
    IF i > Len(list)
    THEN [calls |-> calls, out |-> out, raised |-> "none"]
    ELSE LET j == Len(list) + 1 - i
             sent == Notifier_send(list[j], message)
             calls2 == Append(calls, Call(list[j], "send", Str(<<message>>),
                                          sent.ret, sent.raised))
         IN  IF sent.raised # "none"
             THEN [calls |-> calls2, out |-> out \o sent.out, raised |-> sent.raised]
             ELSE OCP_loop_reversed(list, i + 1, message, calls2, out \o sent.out)

\* NotificationService.notify_all(message), the instance's list being `list`
OCP_notify_all_reversed(list, message) ==
    LET run == OCP_loop_reversed(list, 1, message, <<>>, <<>>)
    IN  Result("notify_all", "NotificationService", Str(<<message>>), None,
               run.raised, run.calls, run.out)

OCP_notify_all(list, message) ==
    LET run == OCP_loop(list, 1, message, <<>>, <<>>)
    IN  Result("notify_all", "NotificationService", Str(<<message>>), None,
               run.raised, run.calls, run.out)

-----------------------------------------------------------------------------
(* DIP: notifications (dip_example.py)                                     *)

\* the list objects of the caller
ListIds == {"L1", "L2"}

\* the MessageSender subclasses of the source, and FaultySender: a subclass
\* whose send raises
Senders == {"EmailSender", "SMSSender", "PushNotificationSender", "FaultySender"}

\* MessageSender.send of each subclass
MessageSender_send(sender, message) ==
    CASE sender = "EmailSender" ->
            Does(<<Line("Enviando e-mail: ", Str(<<message>>))>>, None, "none")
      [] sender = "SMSSender" ->
            Does(<<Line("Enviando SMS: ", Str(<<message>>))>>, None, "none")
      [] sender = "PushNotificationSender" ->
            Does(<<Line("Enviando notificacao push: ", Str(<<message>>))>>, None, "none")
      [] sender = "FaultySender" ->
            Does(<<>>, None, "RuntimeError")

\* NotificationService.__init__(senders): self.senders = senders keeps the
\* caller's list object itself (a reference), not a copy of it
DIP_NotificationService__init__(ref) == ref

\* the for loop of notify from its i-th sender on
RECURSIVE DIP_loop(_, _, _, _, _)
DIP_loop(list, i, message, calls, out) ==
    IF i > Len(list)
    THEN [calls |-> calls, out |-> out, raised |-> "none"]
    ELSE LET sent == MessageSender_send(list[i], message)
             calls2 == Append(calls, Call(list[i], "send", Str(<<message>>),
                                          sent.ret, sent.raised))
         IN  IF sent.raised # "none"
             THEN [calls |-> calls2, out |-> out \o sent.out, raised |-> sent.raised]
             ELSE DIP_loop(list, i + 1, message, calls2, out \o sent.out)

\* a variant of the loop that goes on after a send that raised and reports
\* the first failure once every sender was tried
RECURSIVE DIP_loop_collect(_, _, _, _, _, _)
DIP_loop_collect(list, i, message, calls, out, failure) ==
    IF i > Len(list)
    THEN [calls |-> calls, out |-> out, raised |-> failure]
    ELSE LET sent == MessageSender_send(list[i], message)
             calls2 == Append(calls, Call(list[i], "send", Str(<<message>>),
                                          sent.ret, sent.raised))
         IN  DIP_loop_collect(list, i + 1, message, calls2, out \o sent.out,
                              IF failure = "none" THEN sent.raised ELSE failure)

DIP_notify_collect(list, message) ==
    LET run == DIP_loop_collect(list, 1, message, <<>>, <<>>, "none")
    IN  Result("notify", "NotificationService", Str(<<message>>), None,
               run.raised, run.calls, run.out)

\* NotificationService.notify(message), self.senders being `list`
DIP_notify(list, message) ==
    LET run == DIP_loop(list, 1, message, <<>>, <<>>)
    IN  Result("notify", "NotificationService", Str(<<message>>), None,
               run.raised, run.calls, run.out)

-----------------------------------------------------------------------------
(* DIP: databases and UserService (dip_example.py)                         *)

\* the Database subclasses of the source, and FaultyDatabase: a subclass
\* whose operations raise
Databases == {"MySQLDatabaseCorrect", "PostgreSQLDatabase", "MongoDBDatabase",
              "FaultyDatabase"}

\* the name a database prints and returns
DbName(db) ==
    CASE db = "MySQLDatabaseCorrect" -> "MySQL"
      [] db = "PostgreSQLDatabase" -> "PostgreSQL"
      [] db = "MongoDBDatabase" -> "MongoDB"
      [] OTHER -> "?"

\* Database.connect of each subclass
Database_connect(db) ==
    IF db = "FaultyDatabase"
    THEN Does(<<>>, None, "ConnectionError")
    ELSE Does(<<Line("Conectando ao ", Str(<<DbName(db), "...">>))>>, None, "none")

\* Database.save_data of each subclass
Database_save_data(db, data) ==
    IF db = "FaultyDatabase"
    THEN Does(<<>>, None, "ConnectionError")
    ELSE Does(<<Line("Salvando no ", Str(<<DbName(db), ": ", data>>))>>, None, "none")

\* Database.get_data of each subclass
Database_get_data(db, id) ==
    IF db = "FaultyDatabase"
    THEN Does(<<>>, None, "ConnectionError")
    ELSE Does(<<Line("Buscando no ", Str(<<DbName(db), ": ID ", id>>))>>,
              Str(<<"Dados do ", DbName(db), " (ID: ", id, ")">>), "none")

\* UserServiceBad.__init__: the service makes its own MySQL database
UserServiceBad__init__(db) == "MySQLDatabaseCorrect"

\* UserService.__init__(database): self.database = database
UserService__init__(db) == db

\* a variant of save_user that saves before it connects
UserService_save_user_unordered(db, user) ==
    LET saved == Database_save_data(db, user)
        c1 == Call(db, "save_data", Str(<<user>>), saved.ret, saved.raised)
        conn == Database_connect(db)
        c2 == Call(db, "connect", None, conn.ret, conn.raised)
    IN  IF saved.raised # "none"
        THEN Result("save_user", "UserService", Str(<<user>>), None, saved.raised,
                    <<c1>>, saved.out)
        ELSE Result("save_user", "UserService", Str(<<user>>), None, conn.raised,
                    <<c1, c2>>, saved.out \o conn.out)

\* UserService.save_user(user), self.database being db
UserService_save_user(db, user) ==
    LET conn == Database_connect(db)
        c1 == Call(db, "connect", None, conn.ret, conn.raised)
        saved == Database_save_data(db, user)
        c2 == Call(db, "save_data", Str(<<user>>), saved.ret, saved.raised)
    IN  IF conn.raised # "none"
        THEN Result("save_user", "UserService", Str(<<user>>), None, conn.raised,
                    <<c1>>, conn.out)
        ELSE Result("save_user", "UserService", Str(<<user>>), None, saved.raised,
                    <<c1, c2>>, conn.out \o saved.out)

\* a variant of get_user that asks the database twice
UserService_get_user_twice(db, id) ==
    LET got == Database_get_data(db, id)
        c == Call(db, "get_data", Str(<<id>>), got.ret, got.raised)
    IN  Result("get_user", "UserService", Str(<<id>>), got.ret, got.raised,
               <<c, c>>, got.out \o got.out)

\* UserService.get_user(id), self.database being db
UserService_get_user(db, id) ==
    LET got == Database_get_data(db, id)
    IN  Result("get_user", "UserService", Str(<<id>>), got.ret, got.raised,
               <<Call(db, "get_data", Str(<<id>>), got.ret, got.raised)>>, got.out)

-----------------------------------------------------------------------------
(* DIP: payments and OrderService (dip_example.py)                         *)

\* the PaymentProcessor subclasses of the source, and two more subclasses:
\* DecliningProcessor returns False, FaultyProcessor raises
Processors == {"CreditCardProcessor", "PayPalProcessor", "PixProcessor",
               "DecliningProcessor", "FaultyProcessor"}

\* PaymentProcessor.process_payment of each subclass
PaymentProcessor_process_payment(proc, amount) ==
    CASE proc = "CreditCardProcessor" ->
            Does(<<Line("Processando pagamento de R$ {} via Cartao de Credito", Num(amount))>>,
                 Bool(TRUE), "none")
      [] proc = "PayPalProcessor" ->
            Does(<<Line("Processando pagamento de R$ {} via PayPal", Num(amount))>>,
                 Bool(TRUE), "none")
      [] proc = "PixProcessor" ->
            Does(<<Line("Processando pagamento de R$ {} via PIX", Num(amount))>>,
                 Bool(TRUE), "none")
      [] proc = "DecliningProcessor" -> Does(<<>>, Bool(FALSE), "none")
      [] proc = "FaultyProcessor" -> Does(<<>>, None, "RuntimeError")

\* OrderService.__init__(payment_processor)
OrderService__init__(proc) == proc

\* a variant of create_order that treats a payment that raised as a payment
\* that failed
OrderService_create_order_swallowing(proc, amount) ==
    LET head == <<Line("Criando pedido de R$ ", Num(amount))>>
        paid == PaymentProcessor_process_payment(proc, amount)
        calls == <<Call(proc, "process_payment", Num(amount), paid.ret, paid.raised)>>
    IN  IF paid.raised = "none" /\ paid.ret = Bool(TRUE)
        THEN Result("create_order", "OrderService", Num(amount), None, "none", calls,
                    head \o paid.out \o <<Line("Pedido criado com sucesso!", None)>>)
        ELSE Result("create_order", "OrderService", Num(amount), None, "none", calls,
                    head \o paid.out \o <<Line("Falha ao processar pagamento!", None)>>)

\* OrderService.create_order(amount), self.payment_processor being proc
OrderService_create_order(proc, amount) ==
    LET head == <<Line("Criando pedido de R$ ", Num(amount))>>
        paid == PaymentProcessor_process_payment(proc, amount)
        calls == <<Call(proc, "process_payment", Num(amount), paid.ret, paid.raised)>>
    IN  IF paid.raised # "none"
        THEN Result("create_order", "OrderService", Num(amount), None, paid.raised,
                    calls, head \o paid.out)
        ELSE IF paid.ret = Bool(TRUE)
        THEN Result("create_order", "OrderService", Num(amount), None, "none", calls,
                    head \o paid.out \o <<Line("Pedido criado com sucesso!", None)>>)
        ELSE Result("create_order", "OrderService", Num(amount), None, "none", calls,
                    head \o paid.out \o <<Line("Falha ao processar pagamento!", None)>>)

-----------------------------------------------------------------------------
(* LSP: Rectangle and its subclass Square (lsp_exemple.py)                 *)

\* the width and the height test_rectangle_area sets
TestWidth == 5
TestHeight == 4

\* no Rectangle object
NoShape == [cls |-> "none", width |-> 0, height |-> 0]

\* cls(*args) for cls Rectangle or Square: Square defines no __init__, so
\* both run Rectangle.__init__(self, width, height), which takes exactly two
\* arguments; any other number of them is a TypeError and no object exists
Rectangle__init__(cls, args) ==
    IF Len(args) # 2
    THEN [shape |-> NoShape,
          res |-> Result("__init__", cls, None, None, "TypeError", <<>>, <<>>)]
    ELSE [shape |-> [cls |-> cls, width |-> args[1], height |-> args[2]],
          res |-> Result("__init__", cls, None, None, "none", <<>>, <<>>)]

\* Rectangle.set_width(width) / Square.set_width(width), by the class of self
Rectangle_set_width(self, width) ==
    IF self.cls = "Square"
    THEN [self EXCEPT !.width = width, !.height = width]
    ELSE [self EXCEPT !.width = width]

\* a variant of set_height that assigns the width
Rectangle_set_height_wrong_field(self, height) ==
    IF self.cls = "Square"
    THEN [self EXCEPT !.width = height, !.height = height]
    ELSE [self EXCEPT !.width = height]

\* Rectangle.set_height(height) / Square.set_height(height), by the class of self
Rectangle_set_height(self, height) ==
    IF self.cls = "Square"
    THEN [self EXCEPT !.width = height, !.height = height]
    ELSE [self EXCEPT !.height = height]

\* Rectangle.get_area(), which Square inherits
Rectangle_get_area(self) == self.width * self.height

\* test_rectangle_area(rectangle): the object after the call and what the
\* call printed
test_rectangle_area(rectangle) ==
    LET r1 == Rectangle_set_width(rectangle, TestWidth)
        r2 == Rectangle_set_height(r1, TestHeight)
        expected_area == TestWidth * TestHeight
        actual_area == Rectangle_get_area(r2)
        head == <<Line("Largura: 5, Altura: 4", None),
                  Line("Area esperada: 20, Area real: {}", Num(actual_area))>>
        verdict == IF expected_area = actual_area
                   THEN Line("Teste passou!", None)
                   ELSE Line("Teste FALHOU! LSP violado!", None)
    IN  [shape |-> r2,
         res |-> Result("test_rectangle_area", rectangle.cls, None, None, "none", <<>>,
                        Append(head, verdict))]

\* test_rectangle_area(cls(*args)), a statement of the demonstration: the
\* argument is built first, and if that raises the test is never entered
DemoTest(cls, args) ==
    LET made == Rectangle__init__(cls, args)
    IN  IF made.res.raised # "none"
        THEN [shape |-> NoShape,
              res |-> Result("test_rectangle_area", cls, None, None, made.res.raised,
                             <<>>, <<>>)]
        ELSE test_rectangle_area(made.shape)

-----------------------------------------------------------------------------
(* LSP: the corrected shapes (lsp_exemple.py)                              *)

Dims == 0..MaxDim

\* RectangleCorrect.__init__(width, height)
RectangleCorrect__init__(width, height) == [width |-> width, height |-> height]

\* a variant of set_width that keeps the rectangle square, as Square.set_width does
RectangleCorrect_set_width_square(self, width) == [width |-> width, height |-> width]

\* RectangleCorrect.set_width(width)
RectangleCorrect_set_width(self, width) == [self EXCEPT !.width = width]

\* a variant of set_height that keeps the rectangle square, as Square.set_height does
RectangleCorrect_set_height_square(self, height) == [width |-> height, height |-> height]

\* RectangleCorrect.set_height(height)
RectangleCorrect_set_height(self, height) == [self EXCEPT !.height = height]

\* RectangleCorrect.get_area()
RectangleCorrect_get_area(self) == self.width * self.height

\* SquareCorrect.__init__(side)
SquareCorrect__init__(side) == [side |-> side]

\* SquareCorrect.set_side(side)
SquareCorrect_set_side(self, side) == [self EXCEPT !.side = side]

\* SquareCorrect.get_area()
SquareCorrect_get_area(self) == self.side * self.side

-----------------------------------------------------------------------------
(* Classes, abstract methods and method lookup (the class statements of    *)
(* isp_exemple.py and lsp_exemple.py, and the abstract classes of          *)
(* ocp_example.py and dip_example.py)                                      *)

\* a class statement: its name, its bases in order, the methods its body
\* defines and those of them marked @abstractmethod
Cls(name, bases, own, abstract) ==
    [name |-> name, bases |-> bases, own |-> own, abstract |-> abstract]

WorkerOps == {"work", "eat", "sleep"}
PrinterOps == {"print_document", "scan_document", "fax_document", "photocopy_document"}
DatabaseOps == {"connect", "save_data", "get_data"}

\* the abstract classes (capabilities) of the four files
Capabilities == {"Worker", "Workable", "Eatable", "Sleepable", "MultiFunctionPrinter",
                 "Printer", "Scanner", "Fax", "Photocopier", "Shape", "Database",
                 "MessageSender", "PaymentProcessor", "Discount", "Notifier"}

\* the concrete classes of isp_exemple.py and of the birds of lsp_exemple.py
AntiPatternClasses == {"HumanWorker", "RobotWorker", "ModernPrinter", "SimplePrinter",
                       "Sparrow", "Penguin", "Ostrich"}
CorrectedClasses == {"HumanWorkerCorrect", "RobotWorkerCorrect", "SimplePrinterCorrect",
                     "ModernPrinterCorrect", "ScannerPrinter", "SparrowCorrect",
                     "EagleCorrect", "PenguinCorrect", "OstrichCorrect"}
BaseClasses == {"Bird", "BirdCorrect", "FlyingBird", "NonFlyingBird"}
SourceClasses == Capabilities \cup AntiPatternClasses \cup CorrectedClasses \cup BaseClasses

\* the class statements of the source
ClassDef(name) ==
    CASE name = "Worker" -> Cls(name, <<>>, WorkerOps, WorkerOps)
      [] name = "HumanWorker" -> Cls(name, <<"Worker">>, WorkerOps, {})
      [] name = "RobotWorker" -> Cls(name, <<"Worker">>, WorkerOps, {})
      [] name = "Workable" -> Cls(name, <<>>, {"work"}, {"work"})
      [] name = "Eatable" -> Cls(name, <<>>, {"eat"}, {"eat"})
      [] name = "Sleepable" -> Cls(name, <<>>, {"sleep"}, {"sleep"})
      [] name = "HumanWorkerCorrect" ->
            Cls(name, <<"Workable", "Eatable", "Sleepable">>, WorkerOps, {})
      [] name = "RobotWorkerCorrect" -> Cls(name, <<"Workable">>, {"work"}, {})
      [] name = "MultiFunctionPrinter" -> Cls(name, <<>>, PrinterOps, PrinterOps)
      [] name = "ModernPrinter" -> Cls(name, <<"MultiFunctionPrinter">>, PrinterOps, {})
      [] name = "SimplePrinter" -> Cls(name, <<"MultiFunctionPrinter">>, PrinterOps, {})
      [] name = "Printer" -> Cls(name, <<>>, {"print_document"}, {"print_document"})
      [] name = "Scanner" -> Cls(name, <<>>, {"scan_document"}, {"scan_document"})
      [] name = "Fax" -> Cls(name, <<>>, {"fax_document"}, {"fax_document"})
      [] name = "Photocopier" ->
            Cls(name, <<>>, {"photocopy_document"}, {"photocopy_document"})
      [] name = "SimplePrinterCorrect" -> Cls(name, <<"Printer">>, {"print_document"}, {})
      [] name = "ModernPrinterCorrect" ->
            Cls(name, <<"Printer", "Scanner", "Fax", "Photocopier">>, PrinterOps, {})
      [] name = "ScannerPrinter" ->
            Cls(name, <<"Printer", "Scanner">>, {"print_document", "scan_document"}, {})
      [] name = "Bird" -> Cls(name, <<>>, {"fly"}, {})
      [] name = "Sparrow" -> Cls(name, <<"Bird">>, {}, {})
      [] name = "Penguin" -> Cls(name, <<"Bird">>, {"fly"}, {})
      [] name = "Ostrich" -> Cls(name, <<"Bird">>, {"fly"}, {})
      [] name = "BirdCorrect" -> Cls(name, <<>>, {"eat", "make_sound"}, {})
      [] name = "FlyingBird" -> Cls(name, <<"BirdCorrect">>, {"fly"}, {})
      [] name = "NonFlyingBird" -> Cls(name, <<"BirdCorrect">>, {"walk"}, {})
      [] name = "SparrowCorrect" -> Cls(name, <<"FlyingBird">>, {}, {})
      [] name = "EagleCorrect" -> Cls(name, <<"FlyingBird">>, {}, {})
      [] name = "PenguinCorrect" -> Cls(name, <<"NonFlyingBird">>, {"swim"}, {})
      [] name = "OstrichCorrect" -> Cls(name, <<"NonFlyingBird">>, {"run_fast"}, {})
      [] name = "Shape" -> Cls(name, <<>>, {"get_area"}, {"get_area"})
      [] name = "RectangleCorrect" ->
            Cls(name, <<"Shape">>, {"set_width", "set_height", "get_area"}, {})
      [] name = "SquareCorrect" -> Cls(name, <<"Shape">>, {"set_side", "get_area"}, {})
      [] name = "Database" -> Cls(name, <<>>, DatabaseOps, DatabaseOps)
      [] name = "MessageSender" -> Cls(name, <<>>, {"send"}, {"send"})
      [] name = "PaymentProcessor" ->
            Cls(name, <<>>, {"process_payment"}, {"process_payment"})
      [] name = "Discount" -> Cls(name, <<>>, {"calculate"}, {"calculate"})
      [] name = "Notifier" -> Cls(name, <<>>, {"send"}, {"send"})

\* the classes whose __init__ takes a name
BirdClasses == {"Bird", "Sparrow", "Penguin", "Ostrich", "BirdCorrect", "FlyingBird",
                "NonFlyingBird", "SparrowCorrect", "EagleCorrect", "PenguinCorrect",
                "OstrichCorrect"}

\* a variant that searches the class itself only
Mro_own_only(c) == <<c>>

\* the order in which the classes of c are searched for a method: c itself,
\* then its bases from left to right, each with its own bases (no class of
\* the source is reached along two paths with a method defined on it)
RECURSIVE Mro(_)
Mro(c) ==
    LET RECURSIVE OfBases(_)
        OfBases(i) == IF i > Len(c.bases) THEN <<>>
                      ELSE Mro(ClassDef(c.bases[i])) \o OfBases(i + 1)
    IN  <<c>> \o OfBases(1)

\* the methods an object of class c has
Exposed(c) == UNION {Mro(c)[i].own : i \in 1..Len(Mro(c))}

\* the class whose definition of op an object of class c uses (op in Exposed(c))
Resolve(c, op) ==
    LET mro == Mro(c)
        first == CHOOSE i \in 1..Len(mro) :
                    /\ op \in mro[i].own
                    /\ \A j \in 1..(i - 1) : op \notin mro[j].own
    IN  mro[first]

\* a variant that looks for abstract methods in the first base only
AbstractMethods_first_base(c) ==
    IF Len(c.bases) = 0 THEN c.abstract
    ELSE {op \in ClassDef(c.bases[1]).abstract : op \notin c.own} \cup c.abstract

\* __abstractmethods__ of class c: the methods it has whose definition in use
\* is marked @abstractmethod
AbstractMethods(c) == {op \in Exposed(c) : op \in Resolve(c, op).abstract}

\* no object
NoObject == [cls |-> Cls("none", <<>>, {}, {}), name |-> ""]

\* c(...): creating an object of class c; a class with abstract methods left
\* cannot be instantiated (TypeError) and no object comes to exist
Instantiate(c, name) ==
    IF AbstractMethods(c) # {}
    THEN [obj |-> NoObject,
          res |-> Result("__init__", c.name, Str(<<name>>), None, "TypeError", <<>>, <<>>)]
    ELSE [obj |-> [cls |-> c, name |-> name],
          res |-> Result("__init__", c.name, Str(<<name>>), None, "none", <<>>, <<>>)]

\* what printing one line and returning None does
Prints(text, v) == Does(<<Line(text, v)>>, None, "none")

Documents == {"relatorio.pdf", "contrato.pdf"}
BirdNames == {"Pardal", "Pinguim"}

\* the arguments a call of op is given, by the signature of op in the
\* source: a document, a message, a price or amount, an id, a user's data,
\* or nothing
ArgsOf(op) ==
    CASE op \in {"print_document", "fax_document", "photocopy_document"} ->
            {Str(<<d>>) : d \in Documents}
      [] op = "send" -> {Str(<<m>>) : m \in Messages}
      [] op \in {"calculate", "process_payment"} -> {Num(p) : p \in Prices}
      [] op = "get_data" -> {Str(<<id>>) : id \in Ids}
      [] op = "save_data" -> {Str(<<u>>) : u \in Users}
      [] OTHER -> {None}

\* the body of method op as class cname defines it, run on object self
MethodBody(cname, op, self, arg) ==
    CASE cname = "HumanWorker" /\ op = "work" -> Prints("Humano trabalhando...", None)
      [] cname = "HumanWorker" /\ op = "eat" -> Prints("Humano comendo...", None)
      [] cname = "HumanWorker" /\ op = "sleep" -> Prints("Humano dormindo...", None)
      [] cname = "RobotWorker" /\ op = "work" -> Prints("Robo trabalhando...", None)
      [] cname = "RobotWorker" /\ op = "eat" -> Does(<<>>, None, "NotImplementedError")
      [] cname = "RobotWorker" /\ op = "sleep" -> Does(<<>>, None, "NotImplementedError")
      [] cname = "HumanWorkerCorrect" /\ op = "work" -> Prints("Humano trabalhando...", None)
      [] cname = "HumanWorkerCorrect" /\ op = "eat" -> Prints("Humano comendo...", None)
      [] cname = "HumanWorkerCorrect" /\ op = "sleep" -> Prints("Humano dormindo...", None)
      [] cname = "RobotWorkerCorrect" /\ op = "work" ->
            Prints("Robo trabalhando 24/7...", None)
      [] cname \in {"ModernPrinter", "SimplePrinter", "SimplePrinterCorrect",
                    "ModernPrinterCorrect", "ScannerPrinter"} /\ op = "print_document" ->
            Prints("Imprimindo: {}", arg)
      [] cname \in {"ModernPrinter", "ModernPrinterCorrect", "ScannerPrinter"}
            /\ op = "scan_document" ->
            Does(<<Line("Escaneando documento...", None)>>,
                 Str(<<"documento_escaneado.pdf">>), "none")
      [] cname \in {"ModernPrinter", "ModernPrinterCorrect"} /\ op = "fax_document" ->
            Prints("Enviando fax: {}", arg)
      [] cname \in {"ModernPrinter", "ModernPrinterCorrect"}
            /\ op = "photocopy_document" ->
            Prints("Fazendo fotocopia: {}", arg)
      [] cname = "SimplePrinter" /\ op = "scan_document" ->
            Does(<<>>, None, "NotImplementedError")
      [] cname = "SimplePrinter" /\ op = "fax_document" ->
            Does(<<>>, None, "NotImplementedError")
      [] cname = "SimplePrinter" /\ op = "photocopy_document" ->
            Does(<<>>, None, "NotImplementedError")
      [] cname = "Bird" /\ op = "fly" -> Prints("{} esta voando!", Str(<<self.name>>))
      [] cname = "Penguin" /\ op = "fly" -> Does(<<>>, None, "Exception")
      [] cname = "Ostrich" /\ op = "fly" -> Does(<<>>, None, "Exception")
      [] cname = "BirdCorrect" /\ op = "eat" ->
            Prints("{} esta comendo.", Str(<<self.name>>))
      [] cname = "BirdCorrect" /\ op = "make_sound" ->
            Prints("{} esta fazendo som.", Str(<<self.name>>))
      [] cname = "FlyingBird" /\ op = "fly" ->
            Prints("{} esta voando!", Str(<<self.name>>))
      [] cname = "NonFlyingBird" /\ op = "walk" ->
            Prints("{} esta andando.", Str(<<self.name>>))
      [] cname = "PenguinCorrect" /\ op = "swim" ->
            Prints("{} esta nadando!", Str(<<self.name>>))
      [] cname = "OstrichCorrect" /\ op = "run_fast" ->
            Prints("{} esta correndo muito rapido!", Str(<<self.name>>))
      \* an abstract method, and a method of a class written against a
      \* capability: the body is `pass`
      [] OTHER -> Does(<<>>, None, "none")

\* a variant of the call that swallows what the body raises
Invoke_swallowing(self, op, arg) ==
    IF op \notin Exposed(self.cls)
    THEN Result(op, self.cls.name, arg, None, "AttributeError", <<>>, <<>>)
    ELSE LET did == MethodBody(Resolve(self.cls, op).name, op, self, arg)
         IN  Result(op, self.cls.name, arg, did.ret, "none", <<>>, did.out)

\* self.op(arg): the method is looked up along the classes of self; an object
\* that has no such method raises AttributeError
Invoke(self, op, arg) ==
    IF op \notin Exposed(self.cls)
    THEN Result(op, self.cls.name, arg, None, "AttributeError", <<>>, <<>>)
    ELSE LET did == MethodBody(Resolve(self.cls, op).name, op, self, arg)
         IN  Result(op, self.cls.name, arg, did.ret, did.raised, <<>>, did.out)

-----------------------------------------------------------------------------
(* The classes a caller may write against the capabilities: any choice of   *)
(* capabilities of one family as bases, with any of the family's methods    *)
(* defined                                                                  *)

Families == {<<"Workable", "Eatable", "Sleepable">>,
             <<"Printer", "Scanner", "Fax", "Photocopier">>,
             <<"Worker">>, <<"MultiFunctionPrinter">>, <<"Shape">>, <<"Database">>,
             <<"MessageSender">>, <<"PaymentProcessor">>, <<"Discount">>, <<"Notifier">>}

\* the members of family f at the positions of idx, in the family's order
RECURSIVE Pick(_, _, _)
Pick(f, idx, i) ==
    IF i > Len(f) THEN <<>>
    ELSE (IF i \in idx THEN <<f[i]>> ELSE <<>>) \o Pick(f, idx, i + 1)

FamilyOps(f) == UNION {ClassDef(f[i]).own : i \in 1..Len(f)}

CandidateClasses ==
    UNION {{Cls("Candidate", Pick(f, idx, 1), own, {}) :
                idx \in (SUBSET (1..Len(f))) \ {{}}, own \in SUBSET FamilyOps(f)} :
           f \in Families}

-----------------------------------------------------------------------------
(* The state machine *)

Demos == {"ocp_discount", "ocp_notification", "dip_user", "dip_notification",
          "dip_payment", "classes", "lsp_shapes", "lsp_rectangle"}

\* the number of senders in the lists of the caller
HeapSize(h) == Len(h["L1"]) + Len(h["L2"])

\* the number of notifiers the OCP instances hold
Held_notifiers(ns) == Len(ns["A"]) + Len(ns["B"])

\* the sequences over S of length at most n
SeqsUpTo(S, n) == UNION {[1..k -> S] : k \in 0..n}

Init ==
    /\ demo \in Demos
    /\ notifiers = [s \in Svcs |-> OCP_NotificationService__init__]
    /\ lists \in IF demo = "dip_notification"
                 THEN {h \in [ListIds -> SeqsUpTo(Senders, MaxSenders)] :
                            HeapSize(h) <= MaxSenders}
                 ELSE {[l \in ListIds |-> <<>>]}
    /\ \E given \in IF demo = "dip_notification" THEN [Svcs -> ListIds]
                     ELSE {[s \in Svcs |-> "L1"]} :
            senders = [s \in Svcs |-> DIP_NotificationService__init__(given[s])]
    /\ injected \in CASE demo = "dip_user" -> Databases
                      [] demo = "dip_payment" -> Processors
                      [] OTHER -> {"none"}
    /\ database = IF demo = "dip_user" THEN UserService__init__(injected) ELSE "none"
    /\ payment_processor =
            IF demo = "dip_payment" THEN OrderService__init__(injected) ELSE "none"
    /\ \E w \in IF demo = "lsp_shapes" THEN Dims ELSE {0},
          h \in IF demo = "lsp_shapes" THEN Dims ELSE {0} :
            rect = RectangleCorrect__init__(w, h)
    /\ \E side \in IF demo = "lsp_shapes" THEN Dims ELSE {0} :
            square = SquareCorrect__init__(side)
    /\ added = [s \in Svcs |-> <<>>]
    /\ shape = NoShape
    /\ obj = NoObject
    /\ tried = NoObject.cls
    /\ last = NoCall

(* OCP: discounts *)

CalculateFinalPrice ==
    /\ demo = "ocp_discount"
    /\ \E price \in Prices, discount \in Discounts :
            last' = DiscountCalculator_calculate_final_price(price, discount)
    /\ UNCHANGED <<demo, added, shape, notifiers, lists, senders, database, payment_processor, injected,
                   rect, square, obj, tried>>

CalculateDiscount ==
    /\ demo = "ocp_discount"
    /\ \E customer_type \in CustomerTypes, price \in Prices :
            last' = DiscountCalculatorBad_calculate_discount(customer_type, price)
    /\ UNCHANGED <<demo, added, shape, notifiers, lists, senders, database, payment_processor, injected,
                   rect, square, obj, tried>>

(* OCP: notifications *)

AddNotifier ==
    /\ demo = "ocp_notification"
    /\ \E svc \in Svcs, notifier \in Notifiers :
            /\ Held_notifiers(notifiers) < MaxNotifiers
            /\ notifiers' = OCP_add_notifier(notifiers, svc, notifier)
            /\ added' = [added EXCEPT ![svc] = Append(@, notifier)]
            /\ last' = Result("add_notifier", svc, Str(<<notifier>>), None, "none",
                              <<>>, <<>>)
    /\ UNCHANGED <<demo, shape, lists, senders, database, payment_processor, injected, rect,
                   square, obj, tried>>

NotifyAll ==
    /\ demo = "ocp_notification"
    /\ \E svc \in Svcs, message \in Messages :
            last' = [OCP_notify_all(notifiers[svc], message) EXCEPT !.target = svc]
    /\ UNCHANGED <<demo, added, shape, notifiers, lists, senders, database, payment_processor, injected,
                   rect, square, obj, tried>>

(* DIP: notifications *)

\* the caller appends to a list of its own after the services were built
CallerAppend ==
    /\ demo = "dip_notification"
    /\ \E l \in ListIds, sender \in Senders :
            /\ HeapSize(lists) < MaxSenders
            /\ lists' = [lists EXCEPT ![l] = Append(@, sender)]
            /\ last' = Result("append", l, Str(<<sender>>), None, "none", <<>>, <<>>)
    /\ UNCHANGED <<demo, added, shape, notifiers, senders, database, payment_processor, injected, rect,
                   square, obj, tried>>

Notify ==
    /\ demo = "dip_notification"
    /\ \E svc \in Svcs, message \in Messages :
            last' = [DIP_notify(lists[senders[svc]], message) EXCEPT !.target = svc]
    /\ UNCHANGED <<demo, added, shape, notifiers, lists, senders, database, payment_processor, injected,
                   rect, square, obj, tried>>

(* DIP: UserService and OrderService *)

\* UserService(db): the caller builds a service around another database
NewUserService ==
    /\ demo = "dip_user"
    /\ \E db \in Databases :
            /\ injected' = db
            /\ database' = UserService__init__(db)
            /\ last' = Result("__init__", "UserService", Str(<<db>>), None, "none",
                              <<>>, <<>>)
    /\ UNCHANGED <<demo, added, shape, notifiers, lists, senders, payment_processor, rect, square, obj,
                   tried>>

SaveUser ==
    /\ demo = "dip_user"
    /\ \E user \in Users : last' = UserService_save_user(database, user)
    /\ UNCHANGED <<demo, added, shape, notifiers, lists, senders, database, payment_processor, injected,
                   rect, square, obj, tried>>

GetUser ==
    /\ demo = "dip_user"
    /\ \E id \in Ids : last' = UserService_get_user(database, id)
    /\ UNCHANGED <<demo, added, shape, notifiers, lists, senders, database, payment_processor, injected,
                   rect, square, obj, tried>>

\* OrderService(proc): the caller builds a service around another processor
NewOrderService ==
    /\ demo = "dip_payment"
    /\ \E proc \in Processors :
            /\ injected' = proc
            /\ payment_processor' = OrderService__init__(proc)
            /\ last' = Result("__init__", "OrderService", Str(<<proc>>), None, "none",
                              <<>>, <<>>)
    /\ UNCHANGED <<demo, added, shape, notifiers, lists, senders, database, rect, square, obj, tried>>

CreateOrder ==
    /\ demo = "dip_payment"
    /\ \E amount \in Prices : last' = OrderService_create_order(payment_processor, amount)
    /\ UNCHANGED <<demo, added, shape, notifiers, lists, senders, database, payment_processor, injected,
                   rect, square, obj, tried>>

(* LSP: the corrected shapes *)

SetWidth ==
    /\ demo = "lsp_shapes"
    /\ \E width \in Dims :
            /\ rect' = RectangleCorrect_set_width(rect, width)
            /\ last' = Result("set_width", "RectangleCorrect", Num(width), None, "none",
                              <<>>, <<>>)
    /\ UNCHANGED <<demo, added, shape, notifiers, lists, senders, database, payment_processor, injected,
                   square, obj, tried>>

SetHeight ==
    /\ demo = "lsp_shapes"
    /\ \E height \in Dims :
            /\ rect' = RectangleCorrect_set_height(rect, height)
            /\ last' = Result("set_height", "RectangleCorrect", Num(height), None, "none",
                              <<>>, <<>>)
    /\ UNCHANGED <<demo, added, shape, notifiers, lists, senders, database, payment_processor, injected,
                   square, obj, tried>>

SetSide ==
    /\ demo = "lsp_shapes"
    /\ \E side \in Dims :
            /\ square' = SquareCorrect_set_side(square, side)
            /\ last' = Result("set_side", "SquareCorrect", Num(side), None, "none",
                              <<>>, <<>>)
    /\ UNCHANGED <<demo, added, shape, notifiers, lists, senders, database, payment_processor, injected,
                   rect, obj, tried>>

GetAreaRectangle ==
    /\ demo = "lsp_shapes"
    /\ last' = Result("get_area", "RectangleCorrect", None,
                      Num(RectangleCorrect_get_area(rect)), "none", <<>>, <<>>)
    /\ UNCHANGED <<demo, added, shape, notifiers, lists, senders, database, payment_processor, injected,
                   rect, square, obj, tried>>

GetAreaSquare ==
    /\ demo = "lsp_shapes"
    /\ last' = Result("get_area", "SquareCorrect", None,
                      Num(SquareCorrect_get_area(square)), "none", <<>>, <<>>)
    /\ UNCHANGED <<demo, added, shape, notifiers, lists, senders, database, payment_processor, injected,
                   rect, square, obj, tried>>

(* LSP: Rectangle and Square *)

\* Rectangle(...) or Square(...), with one or two arguments
NewRectangle ==
    /\ demo = "lsp_rectangle"
    /\ \E cls \in {"Rectangle", "Square"},
          args \in [1..1 -> Dims] \cup [1..2 -> Dims] :
            /\ shape' = Rectangle__init__(cls, args).shape
            /\ last' = Rectangle__init__(cls, args).res
    /\ UNCHANGED <<demo, added, notifiers, lists, senders, database, payment_processor,
                   injected, rect, square, obj, tried>>

RectangleSetWidth ==
    /\ demo = "lsp_rectangle"
    /\ shape # NoShape
    /\ \E width \in Dims :
            /\ shape' = Rectangle_set_width(shape, width)
            /\ last' = Result("set_width", shape.cls, Num(width), None, "none", <<>>, <<>>)
    /\ UNCHANGED <<demo, added, notifiers, lists, senders, database, payment_processor,
                   injected, rect, square, obj, tried>>

RectangleSetHeight ==
    /\ demo = "lsp_rectangle"
    /\ shape # NoShape
    /\ \E height \in Dims :
            /\ shape' = Rectangle_set_height(shape, height)
            /\ last' = Result("set_height", shape.cls, Num(height), None, "none", <<>>, <<>>)
    /\ UNCHANGED <<demo, added, notifiers, lists, senders, database, payment_processor,
                   injected, rect, square, obj, tried>>

RectangleGetArea ==
    /\ demo = "lsp_rectangle"
    /\ shape # NoShape
    /\ last' = Result("get_area", shape.cls, None, Num(Rectangle_get_area(shape)), "none",
                      <<>>, <<>>)
    /\ UNCHANGED <<demo, added, shape, notifiers, lists, senders, database,
                   payment_processor, injected, rect, square, obj, tried>>

\* test_rectangle_area(shape), on the object of the example
TestRectangleArea ==
    /\ demo = "lsp_rectangle"
    /\ shape # NoShape
    /\ shape' = test_rectangle_area(shape).shape
    /\ last' = test_rectangle_area(shape).res
    /\ UNCHANGED <<demo, added, notifiers, lists, senders, database, payment_processor,
                   injected, rect, square, obj, tried>>

\* the statement test_rectangle_area(Rectangle(0, 0)) of the demonstration
DemoRectangle ==
    /\ demo = "lsp_rectangle"
    /\ shape' = DemoTest("Rectangle", <<0, 0>>).shape
    /\ last' = [DemoTest("Rectangle", <<0, 0>>).res EXCEPT !.arg = Str(<<"demo">>)]
    /\ UNCHANGED <<demo, added, notifiers, lists, senders, database, payment_processor,
                   injected, rect, square, obj, tried>>

\* the statement test_rectangle_area(Square(0)) of the demonstration
DemoSquare ==
    /\ demo = "lsp_rectangle"
    /\ shape' = DemoTest("Square", <<0>>).shape
    /\ last' = [DemoTest("Square", <<0>>).res EXCEPT !.arg = Str(<<"demo">>)]
    /\ UNCHANGED <<demo, added, notifiers, lists, senders, database, payment_processor,
                   injected, rect, square, obj, tried>>

(* ISP, LSP: classes and their objects *)

\* c(...) for a class of the source or a class written against its capabilities;
\* a behaviour follows the one object it creates (objects share nothing)
New ==
    /\ demo = "classes"
    /\ tried = NoObject.cls
    /\ \E c \in {ClassDef(n) : n \in SourceClasses} \cup CandidateClasses :
       \E name \in IF c.name \in BirdClasses THEN BirdNames ELSE {""} :
            /\ tried' = c
            /\ obj' = Instantiate(c, name).obj
            /\ last' = Instantiate(c, name).res
    /\ UNCHANGED <<demo, added, shape, notifiers, lists, senders, database, payment_processor, injected,
                   rect, square>>

\* obj.op(arg), for any method name of the source
CallMethod ==
    /\ demo = "classes"
    /\ obj # NoObject
    /\ \E op \in UNION {ClassDef(n).own : n \in SourceClasses} :
       \E arg \in ArgsOf(op) :
            last' = Invoke(obj, op, arg)
    /\ UNCHANGED <<demo, added, shape, notifiers, lists, senders, database, payment_processor, injected,
                   rect, square, obj, tried>>

Next ==
    \/ CalculateFinalPrice
    \/ CalculateDiscount
    \/ AddNotifier
    \/ NotifyAll
    \/ CallerAppend
    \/ Notify
    \/ NewUserService
    \/ SaveUser
    \/ GetUser
    \/ NewOrderService
    \/ CreateOrder
    \/ SetWidth
    \/ SetHeight
    \/ SetSide
    \/ GetAreaRectangle
    \/ GetAreaSquare
    \/ NewRectangle
    \/ RectangleSetWidth
    \/ RectangleSetHeight
    \/ RectangleGetArea
    \/ TestRectangleArea
    \/ DemoRectangle
    \/ DemoSquare
    \/ New
    \/ CallMethod

Spec == Init /\ [][Next]_vars

-----------------------------------------------------------------------------
(* Properties *)

\* the list the fan-out of the last call walked: the notifiers of the OCP
\* instance, or the list object the DIP instance refers to
BoundList ==
    IF demo = "ocp_notification" THEN notifiers[last.target]
    ELSE lists[senders[last.target]]

\* the last call was a fan-out of a NotificationService
FanOut ==
    \/ demo = "ocp_notification" /\ last.op = "notify_all"
    \/ demo = "dip_notification" /\ last.op = "notify"

\* the senders of the source, whose send prints and returns
SourceSenders == {"EmailSender", "SMSSender", "PushNotificationSender", "EmailNotifier",
                  "SMSNotifier", "PushNotifier", "WhatsAppNotifier"}

\* C1: one notify(m) / notify_all(m) on a service bound to [s1..sn] makes
\* exactly the deliveries (s1,m), ..., (sn,m): one send per bound sender, in
\* binding order, each with m itself; with senders of the source the call
\* always returns.
C1_ExactDeliveryTrace ==
    FanOut =>
        /\ (\A i \in 1..Len(BoundList) : BoundList[i] \in SourceSenders)
                => last.raised = "none"
        /\ last.raised = "none" =>
                /\ Len(last.calls) = Len(BoundList)
                /\ \A i \in 1..Len(BoundList) :
                        /\ last.calls[i].target = BoundList[i]
                        /\ last.calls[i].op = "send"
                        /\ last.calls[i].arg = last.arg
                        /\ last.calls[i].raised = "none"

\* C1 witness: a service bound to [EmailSender, SMSSender] was asked to
\* notify("code:123456") and made two deliveries
C1_Witness ==
    /\ demo = "dip_notification"
    /\ last.op = "notify"
    /\ BoundList = <<"EmailSender", "SMSSender">>
    /\ last.arg = Str(<<"code:123456">>)
    /\ Len(last.calls) = 2
    /\ last.calls[1].target = "EmailSender"
    /\ last.calls[2].target = "SMSSender"

\* C2: calculate_final_price(price, d) is price minus d.calculate(price), the
\* discount being 0, 5, 10, 20, 30 and 15 percent of the price for
\* NoDiscount, RegularDiscount, PremiumDiscount, VIPDiscount,
\* EmployeeDiscount and SeasonalDiscount; for price 100 the final prices of
\* NoDiscount, PremiumDiscount, VIPDiscount and SeasonalDiscount are 100, 90,
\* 80 and 85.
C2_FinalPrices ==
    last.op = "calculate_final_price" =>
        LET price == last.arg.n
            d == last.arg.s[1]
            amount == last.calls[1].ret.n
            percent == CASE d = "NoDiscount" -> 0
                         [] d = "RegularDiscount" -> 5
                         [] d = "PremiumDiscount" -> 10
                         [] d = "VIPDiscount" -> 20
                         [] d = "EmployeeDiscount" -> 30
                         [] d = "SeasonalDiscount" -> 15
        IN  /\ amount * 100 = price * percent
            /\ last.ret = Num(price - amount)
            /\ price = 100 =>
                    /\ d = "NoDiscount" => amount = 0 /\ last.ret.n = 100
                    /\ d = "PremiumDiscount" => amount = 10 /\ last.ret.n = 90
                    /\ d = "VIPDiscount" => amount = 20 /\ last.ret.n = 80
                    /\ d = "SeasonalDiscount" => amount = 15 /\ last.ret.n = 85

\* C2 witness: the final price of 100 with SeasonalDiscount was computed
C2_Witness ==
    /\ last.op = "calculate_final_price"
    /\ last.arg = Args(100, "SeasonalDiscount")
    /\ last.ret = Num(85)

\* the last call was an operation of the UserService or of the OrderService
ServiceCall == last.op \in {"save_user", "get_user", "create_order"}

\* C3: a service built with provider P2 sends every connect, save_data,
\* get_data and process_payment to P2 and to no other provider, and
\* get_user(id) yields what P2.get_data(id) yields, which no other database
\* of the source yields.
C3_Substitutability ==
    ServiceCall =>
        /\ Len(last.calls) >= 1
        /\ \A i \in 1..Len(last.calls) : last.calls[i].target = injected
        /\ (last.op = "get_user" /\ last.raised = "none") =>
                /\ last.ret = Str(<<"Dados do ", DbName(injected), " (ID: ",
                                    last.arg.s[1], ")">>)
                /\ \A p1 \in Databases \ {injected} :
                        last.ret # Database_get_data(p1, last.arg.s[1]).ret

\* C3 witness: a UserService built with PostgreSQLDatabase answered get_user
\* with the data of PostgreSQL
C3_Witness ==
    /\ last.op = "get_user"
    /\ injected = "PostgreSQLDatabase"
    /\ last.calls = <<Call("PostgreSQLDatabase", "get_data", Str(<<"123">>),
                           Str(<<"Dados do ", "PostgreSQL", " (ID: ", "123", ")">>),
                           "none")>>
    /\ last.ret = last.calls[1].ret

\* the last call was an operation of a consumer with one provider
SingleStrategyCall == last.op \in {"get_user", "calculate_final_price", "create_order"}

\* C4 as stated: every single-strategy operation calls its provider once with
\* the arguments it was given and returns the provider's result unchanged.
C4_PassThrough ==
    (SingleStrategyCall /\ last.raised = "none") =>
        /\ Len(last.calls) = 1
        /\ last.ret = last.calls[1].ret

\* C4, amended: every single-strategy operation calls its provider exactly
\* once, with the id, price or amount it was given; get_user returns the
\* provider's result unchanged; calculate_final_price returns the price minus
\* the provider's result; create_order returns None and prints the success
\* line if the provider returned True, the failure line if it returned False.
C4_Delegation ==
    SingleStrategyCall =>
        /\ Len(last.calls) = 1
        /\ last.calls[1].op = CASE last.op = "get_user" -> "get_data"
                                 [] last.op = "calculate_final_price" -> "calculate"
                                 [] last.op = "create_order" -> "process_payment"
        /\ last.calls[1].arg = IF last.op = "calculate_final_price"
                               THEN Num(last.arg.n) ELSE last.arg
        /\ last.raised = last.calls[1].raised
        /\ last.raised = "none" =>
                /\ last.op = "get_user" => last.ret = last.calls[1].ret
                /\ last.op = "calculate_final_price" =>
                        last.ret = Num(last.arg.n - last.calls[1].ret.n)
                /\ last.op = "create_order" =>
                        /\ last.ret = None
                        /\ last.out[Len(last.out)] =
                                IF last.calls[1].ret = Bool(TRUE)
                                THEN Line("Pedido criado com sucesso!", None)
                                ELSE Line("Falha ao processar pagamento!", None)

\* C4 witness: calculate_final_price returned a price that is not the
\* discount its provider returned
C4_Witness ==
    /\ last.op = "calculate_final_price"
    /\ Len(last.calls) = 1
    /\ last.calls[1].ret = Num(20)
    /\ last.ret = Num(80)

\* the position of the first sender of the bound list whose send raises, 0 if none
FirstFailing ==
    LET fails(i) == IF demo = "ocp_notification"
                    THEN Notifier_send(BoundList[i], "m").raised # "none"
                    ELSE MessageSender_send(BoundList[i], "m").raised # "none"
        bad == {i \in 1..Len(BoundList) : fails(i)}
    IN  IF bad = {} THEN 0 ELSE CHOOSE i \in bad : \A j \in bad : i <= j

\* C5: when the send of the i-th bound sender fails, the failure leaves
\* notify / notify_all, senders 1..i-1 were each invoked once, in order, and
\* senders i+1..n were not invoked.
C5_FailFast ==
    (FanOut /\ FirstFailing > 0) =>
        LET i == FirstFailing
        IN  /\ last.raised = "RuntimeError"
            /\ Len(last.calls) = i
            /\ \A j \in 1..i :
                    /\ last.calls[j].target = BoundList[j]
                    /\ last.calls[j].arg = last.arg
                    /\ last.calls[j].raised = IF j = i THEN "RuntimeError" ELSE "none"
            /\ Len(last.out) = i - 1

\* C5 witness: the second of three bound senders failed; the first had been
\* invoked and the third was not
C5_Witness ==
    /\ demo = "dip_notification"
    /\ last.op = "notify"
    /\ BoundList = <<"EmailSender", "FaultySender", "SMSSender">>
    /\ last.raised = "RuntimeError"
    /\ Len(last.calls) = 2
    /\ last.calls[1].target = "EmailSender"

\* the operations each capability requires, as the class statements mark them
RequiredBy(capability) ==
    CASE capability = "Worker" -> {"work", "eat", "sleep"}
      [] capability = "Workable" -> {"work"}
      [] capability = "Eatable" -> {"eat"}
      [] capability = "Sleepable" -> {"sleep"}
      [] capability = "MultiFunctionPrinter" ->
            {"print_document", "scan_document", "fax_document", "photocopy_document"}
      [] capability = "Printer" -> {"print_document"}
      [] capability = "Scanner" -> {"scan_document"}
      [] capability = "Fax" -> {"fax_document"}
      [] capability = "Photocopier" -> {"photocopy_document"}
      [] capability = "Shape" -> {"get_area"}
      [] capability = "Database" -> {"connect", "save_data", "get_data"}
      [] capability = "MessageSender" -> {"send"}
      [] capability = "PaymentProcessor" -> {"process_payment"}
      [] capability = "Discount" -> {"calculate"}
      [] capability = "Notifier" -> {"send"}
      [] OTHER -> {}

\* the class last asked for claims capabilities: its bases are abstract classes
ClaimsCapabilities ==
    /\ Len(tried.bases) > 0
    /\ \A i \in 1..Len(tried.bases) : tried.bases[i] \in Capabilities

\* C6: a class that claims capabilities can be instantiated if and only if it
\* implements every operation of every capability it claims; otherwise the
\* construction fails with an error and no object exists.
C6_AbstractContract ==
    (demo = "classes" /\ last.op = "__init__" /\ ClaimsCapabilities) =>
        LET required == UNION {RequiredBy(tried.bases[i]) : i \in 1..Len(tried.bases)}
            complete == required \subseteq (tried.own \ tried.abstract)
        IN  /\ complete <=> last.raised = "none"
            /\ complete => obj.cls = tried
            /\ ~complete => last.raised = "TypeError" /\ obj = NoObject

\* C6 witness: a class that claims Workable and Eatable and defines only work
\* was refused
C6_Witness ==
    /\ last.op = "__init__"
    /\ tried.bases = <<"Workable", "Eatable">>
    /\ tried.own = {"work"}
    /\ last.raised = "TypeError"
    /\ obj = NoObject

\* the operations the anti-pattern classes define only to refuse them
Unsupported ==
    {<<"RobotWorker", "eat">>, <<"RobotWorker", "sleep">>,
     <<"SimplePrinter", "scan_document">>, <<"SimplePrinter", "fax_document">>,
     <<"SimplePrinter", "photocopy_document">>, <<"Penguin", "fly">>,
     <<"Ostrich", "fly">>}

\* the operations the anti-pattern classes declare
DeclaredOps(cname) ==
    CASE cname \in {"HumanWorker", "RobotWorker"} -> {"work", "eat", "sleep"}
      [] cname \in {"ModernPrinter", "SimplePrinter"} ->
            {"print_document", "scan_document", "fax_document", "photocopy_document"}
      [] cname \in {"Sparrow", "Penguin", "Ostrich"} -> {"fly"}
      [] OTHER -> {}

\* the last call was a method call on the object
MethodCall == demo = "classes" /\ obj # NoObject /\ last.op \notin {"none", "__init__"}

\* C7: on the anti-pattern objects every unsupported operation raises and
\* does nothing else (prints nothing, returns nothing), and every other
\* declared operation completes without error.
C7_UnsupportedOperation ==
    (MethodCall /\ obj.cls.name \in AntiPatternClasses
        /\ last.op \in DeclaredOps(obj.cls.name)) =>
        IF <<obj.cls.name, last.op>> \in Unsupported
        THEN /\ last.raised \in {"NotImplementedError", "Exception"}
             /\ last.out = <<>>
             /\ last.ret = None
        ELSE /\ last.raised = "none"
             /\ Len(last.out) = 1

\* C7 witness: eat was called on a RobotWorker and raised
C7_Witness ==
    /\ demo = "classes"
    /\ obj.cls.name = "RobotWorker"
    /\ last.op = "eat"
    /\ last.raised = "NotImplementedError"
    /\ last.out = <<>>

\* the operations of each corrected provider: those of the capabilities it
\* claims and its own
OpsOfCorrected(cname) ==
    CASE cname = "HumanWorkerCorrect" -> {"work", "eat", "sleep"}
      [] cname = "RobotWorkerCorrect" -> {"work"}
      [] cname = "SimplePrinterCorrect" -> {"print_document"}
      [] cname = "ModernPrinterCorrect" ->
            {"print_document", "scan_document", "fax_document", "photocopy_document"}
      [] cname = "ScannerPrinter" -> {"print_document", "scan_document"}
      [] cname = "SparrowCorrect" -> {"eat", "make_sound", "fly"}
      [] cname = "EagleCorrect" -> {"eat", "make_sound", "fly"}
      [] cname = "PenguinCorrect" -> {"eat", "make_sound", "walk", "swim"}
      [] cname = "OstrichCorrect" -> {"eat", "make_sound", "walk", "run_fast"}

\* C8: a corrected provider has exactly the operations of the capabilities
\* it claims and its own; a call of any of them completes without raising,
\* so that no call on a corrected provider ends in the unsupported-operation
\* error (an operation it does not have is no attribute of the object).
C8_CorrectedNeverUnsupported ==
    (MethodCall /\ obj.cls.name \in CorrectedClasses) =>
            /\ Exposed(obj.cls) = OpsOfCorrected(obj.cls.name)
            /\ last.op \in OpsOfCorrected(obj.cls.name) => last.raised = "none"
            /\ last.op \notin OpsOfCorrected(obj.cls.name) =>
                    last.raised = "AttributeError"

\* C8 witness: fly, which SparrowCorrect has from FlyingBird, was called on a
\* SparrowCorrect and completed
C8_Witness ==
    /\ demo = "classes"
    /\ obj.cls.name = "SparrowCorrect"
    /\ last.op = "fly"
    /\ last.raised = "none"
    /\ Len(last.out) = 1

\* the last call was calculate_discount with a label the chain does not know
UnknownLabel ==
    /\ last.op = "calculate_discount"
    /\ last.arg.s[1] \notin {"regular", "premium", "vip", "employee"}

\* C9 as stated: calculate_discount signals an error for every label outside
\* regular, premium, vip and employee.
C9_UnrecognizedVariant == UnknownLabel => last.raised # "none"

\* C9, amended: calculate_discount signals no error for a label outside
\* regular, premium, vip and employee: it returns the discount 0.0, whatever
\* the price.
C9_UnknownLabelIsZero == UnknownLabel => (last.raised = "none" /\ last.ret = Num(0))

\* C9 witness: the discount of the label "student" on the price 100 was
\* computed
C9_Witness ==
    /\ last.op = "calculate_discount"
    /\ last.arg = Args(100, "student")
    /\ last.ret = Num(0)
    /\ last.raised = "none"

\* what the objects of the corrected examples hold: the lists of the OCP
\* services, the list each DIP service refers to and its contents, the
\* providers of UserService and OrderService, and the fields of the shapes
Held ==
    <<notifiers, senders, [s \in Svcs |-> lists[senders[s]]], database,
      payment_processor, rect, square>>

\* the step is a call on an object of a corrected example that exists (not a
\* constructor call, and not a call on the Rectangle or Square of the
\* anti-pattern example)
OperationStep == last'.op # "__init__" /\ demo # "lsp_rectangle"

\* C10 as stated: after its constructor has returned, no operation on a
\* corrected provider or consumer, and nothing the caller does with the list
\* it gave to the DIP NotificationService, changes what the object holds.
C10_Immutable == [][OperationStep => Held' = Held]_vars

\* C10, amended: what a corrected provider or consumer holds changes only
\* in these ways: add_notifier appends the notifier to the list of that
\* instance alone; set_width, set_height and set_side replace that one field;
\* an append of the caller to the list it gave to a DIP NotificationService
\* appends to the senders of every service built with that list.  Every other
\* operation (notify, notify_all, calculate_final_price, save_user, get_user,
\* create_order, get_area) leaves every object as it was.
C10_MutatedOnlyBy ==
    [][OperationStep =>
        CASE last'.op = "add_notifier" ->
                /\ notifiers'[last'.target] =
                        Append(notifiers[last'.target], last'.arg.s[1])
                /\ \A s \in Svcs \ {last'.target} : notifiers'[s] = notifiers[s]
                /\ <<senders, lists, database, payment_processor, rect, square>>' =
                        <<senders, lists, database, payment_processor, rect, square>>
          [] last'.op = "set_width" ->
                /\ rect' = [width |-> last'.arg.n, height |-> rect.height]
                /\ <<notifiers, senders, lists, database, payment_processor, square>>' =
                        <<notifiers, senders, lists, database, payment_processor, square>>
          [] last'.op = "set_height" ->
                /\ rect' = [width |-> rect.width, height |-> last'.arg.n]
                /\ <<notifiers, senders, lists, database, payment_processor, square>>' =
                        <<notifiers, senders, lists, database, payment_processor, square>>
          [] last'.op = "set_side" ->
                /\ square' = [side |-> last'.arg.n]
                /\ <<notifiers, senders, lists, database, payment_processor, rect>>' =
                        <<notifiers, senders, lists, database, payment_processor, rect>>
          [] last'.op = "append" ->
                /\ senders' = senders
                /\ \A s \in Svcs :
                        lists'[senders'[s]] =
                            IF senders[s] = last'.target
                            THEN Append(lists[senders[s]], last'.arg.s[1])
                            ELSE lists[senders[s]]
                /\ <<notifiers, database, payment_processor, rect, square>>' =
                        <<notifiers, database, payment_processor, rect, square>>
          [] OTHER -> Held' = Held]_vars

\* C10 witness: the caller appended to the list it had given to service A,
\* and the senders of A are the longer list
C10_Witness ==
    /\ demo = "dip_notification"
    /\ last.op = "append"
    /\ senders["A"] = last.target
    /\ Len(lists[senders["A"]]) > 0
    /\ lists[senders["A"]][Len(lists[senders["A"]])] = last.arg.s[1]

-----------------------------------------------------------------------------
(* Extension, isolation, error propagation *)

\* the discounts that existed before SeasonalDiscount was added, and the
\* percentage each takes
EarlierDiscounts == {"NoDiscount", "RegularDiscount", "PremiumDiscount", "VIPDiscount",
                     "EmployeeDiscount"}

EarlierPercent(d) ==
    CASE d = "NoDiscount" -> 0
      [] d = "RegularDiscount" -> 5
      [] d = "PremiumDiscount" -> 10
      [] d = "VIPDiscount" -> 20
      [] d = "EmployeeDiscount" -> 30

\* the final price of every earlier discount is what it was without
\* SeasonalDiscount, whatever was computed before
EarlierPricesKept ==
    /\ \A price \in Prices, d \in EarlierDiscounts :
            DiscountCalculator_calculate_final_price(price, d).ret
                = Num(price - (price * EarlierPercent(d)) \div 100)
    /\ (last.op = "calculate_final_price" /\ last.arg.s[1] \in EarlierDiscounts) =>
            last.ret = Num(last.arg.n - (last.arg.n * EarlierPercent(last.arg.s[1])) \div 100)

\* an add_notifier(new) step keeps, for every message, the deliveries
\* notify_all made before it, in their order, and puts the delivery to new
\* after them
EarlierDeliveriesKept ==
    (demo = "ocp_notification" /\ last'.op = "add_notifier") =>
        LET svc == last'.target
            new == last'.arg.s[1]
        IN  \A m \in Messages :
                LET before == OCP_notify_all(notifiers[svc], m)
                    after == OCP_notify_all(notifiers'[svc], m)
                    sent == Notifier_send(new, m)
                IN  /\ Len(after.calls) >= Len(before.calls)
                    /\ SubSeq(after.calls, 1, Len(before.calls)) = before.calls
                    /\ SubSeq(after.out, 1, Len(before.out)) = before.out
                    /\ before.raised = "none" =>
                            /\ after.calls = Append(before.calls,
                                    Call(new, "send", Str(<<m>>), sent.ret, sent.raised))
                            /\ after.out = before.out \o sent.out
                    /\ before.raised # "none" =>
                            /\ after.calls = before.calls
                            /\ after.out = before.out
                            /\ after.raised = before.raised

\* C11: adding a new provider changes no output of an existing pair:
\* calculate_final_price(price, d) of every discount d that existed before
\* SeasonalDiscount is what it was, and after add_notifier(new) notify_all
\* delivers to the earlier notifiers in the same order with the same
\* messages, the delivery to new coming last.
C11_OpenClosedRegression == [][EarlierDeliveriesKept]_vars /\ []EarlierPricesKept

\* C11 witness: WhatsAppNotifier was added to an instance that held
\* EmailNotifier and SMSNotifier
C11_Witness ==
    /\ demo = "ocp_notification"
    /\ last.op = "add_notifier"
    /\ last.target = "A"
    /\ last.arg = Str(<<"WhatsAppNotifier">>)
    /\ notifiers["A"] = <<"EmailNotifier", "SMSNotifier", "WhatsAppNotifier">>
    /\ OCP_notify_all(notifiers["A"], "code:123456").calls[3].target = "WhatsAppNotifier"

\* the provider sequence instance s is bound to: its own list (OCP), or the
\* list object it refers to (DIP)
BoundOf(s) ==
    IF demo = "ocp_notification" THEN notifiers[s] ELSE lists[senders[s]]

\* the delivery trace instance s would produce for message m
TraceOf(s, m) ==
    IF demo = "ocp_notification"
    THEN OCP_notify_all(notifiers[s], m)
    ELSE DIP_notify(lists[senders[s]], m)

\* the step is an operation on one NotificationService instance
OnOneInstance ==
    /\ demo \in {"ocp_notification", "dip_notification"}
    /\ last'.op \in {"add_notifier", "notify", "notify_all"}
    /\ last'.target \in Svcs

\* C12: distinct consumers share no mutable state: an add_notifier, notify
\* or notify_all on one NotificationService instance leaves the provider
\* sequence of every other instance as it was (also for two DIP instances
\* built from one sender list), so the next delivery trace of the other
\* instance is what it would have been without the operation.
C12_NoSharedMutableState ==
    [][OnOneInstance =>
        \A b \in Svcs \ {last'.target} :
            /\ BoundOf(b)' = BoundOf(b)
            /\ \A m \in Messages : TraceOf(b, m)' = TraceOf(b, m)]_vars

\* C12 witness: WhatsAppNotifier was added to instance A, which now holds
\* two notifiers, while instance B still holds its one SMSNotifier
C12_Witness ==
    /\ demo = "ocp_notification"
    /\ last.op = "add_notifier"
    /\ last.target = "A"
    /\ notifiers["A"] = <<"EmailNotifier", "WhatsAppNotifier">>
    /\ notifiers["B"] = <<"SMSNotifier">>
    /\ Len(TraceOf("B", "code:123456").calls) = 1

\* the step is the call op on the corrected shape cls
ShapeStep(cls, op) == demo = "lsp_shapes" /\ last'.target = cls /\ last'.op = op

\* C13: the corrected shapes compute their area from their own fields:
\* set_width(w) makes the width w and leaves the height, set_height(h) makes
\* the height h and leaves the width, and get_area() of a RectangleCorrect
\* returns width * height of the fields as last set or constructed;
\* set_side(s) makes the side s and get_area() of a SquareCorrect returns
\* side * side; get_area changes no field; a SquareCorrect has no set_width
\* and no set_height.
C13_CorrectedShapeArea ==
    [][/\ ShapeStep("RectangleCorrect", "set_width") =>
            rect'.width = last'.arg.n /\ rect'.height = rect.height /\ square' = square
       /\ ShapeStep("RectangleCorrect", "set_height") =>
            rect'.height = last'.arg.n /\ rect'.width = rect.width /\ square' = square
       /\ ShapeStep("RectangleCorrect", "get_area") =>
            /\ last'.ret = Num(rect.width * rect.height)
            /\ rect' = rect /\ square' = square
       /\ ShapeStep("SquareCorrect", "set_side") =>
            square'.side = last'.arg.n /\ rect' = rect
       /\ ShapeStep("SquareCorrect", "get_area") =>
            /\ last'.ret = Num(square.side * square.side)
            /\ rect' = rect /\ square' = square
       /\ Exposed(ClassDef("SquareCorrect")) \cap {"set_width", "set_height"} = {}
       /\ Exposed(ClassDef("SquareCorrect")) = {"set_side", "get_area"}]_vars

\* C13 witness: set_height(1) was called on a RectangleCorrect whose width is
\* 2, and get_area() now yields 2
C13_Witness ==
    /\ demo = "lsp_shapes"
    /\ last.op = "set_height"
    /\ last.arg = Num(1)
    /\ rect = [width |-> 2, height |-> 1]
    /\ RectangleCorrect_get_area(rect) = 2

\* the lines create_order prints once the payment has returned
OutcomeLines == {Line("Pedido criado com sucesso!", None),
                 Line("Falha ao processar pagamento!", None)}

\* C14: an error of the provider reaches the caller of the consumer: a call
\* of save_user, get_user or create_order raises exactly when one of its
\* provider calls raised, with that same error, and that provider call is
\* its last; when connect fails inside save_user, save_data is not invoked;
\* when process_payment fails, create_order prints neither the success nor
\* the failure line.
C14_ErrorsPropagate ==
    ServiceCall =>
        LET n == Len(last.calls)
        IN  /\ \A i \in 1..n :
                    last.calls[i].raised # "none" =>
                        /\ i = n
                        /\ last.raised = last.calls[i].raised
            /\ last.raised # "none" => (n >= 1 /\ last.calls[n].raised = last.raised)
            /\ (last.op = "save_user" /\ last.calls[1].raised # "none") =>
                    /\ last.calls[1].op = "connect"
                    /\ \A i \in 1..n : last.calls[i].op # "save_data"
            /\ (last.op = "get_user" /\ last.raised # "none") => last.ret = None
            /\ (last.op = "create_order" /\ last.raised # "none") =>
                    \A i \in 1..Len(last.out) : last.out[i] \notin OutcomeLines

\* C14 witness: save_user on a service whose database cannot connect raised
\* ConnectionError after the one connect call
C14_Witness ==
    /\ demo = "dip_user"
    /\ database = "FaultyDatabase"
    /\ last.op = "save_user"
    /\ last.raised = "ConnectionError"
    /\ Len(last.calls) = 1
    /\ last.calls[1].op = "connect"

-----------------------------------------------------------------------------
(* Rectangle and Square *)

\* set_height(h) directly after set_width(w) on a Rectangle
WidthThenHeight ==
    /\ demo = "lsp_rectangle"
    /\ shape.cls = "Rectangle"
    /\ last.op = "set_width" /\ last.target = "Rectangle"
    /\ last'.op = "set_height" /\ last'.target = "Rectangle"

\* test_rectangle_area was called on a Rectangle
RectangleTested ==
    /\ demo = "lsp_rectangle"
    /\ last.op = "test_rectangle_area"
    /\ last.target = "Rectangle"
    /\ last.raised = "none"

\* C15: for a Rectangle in any earlier state, after set_width(w) followed by
\* set_height(h), get_area() returns w * h; test_rectangle_area on a
\* Rectangle sets 5 and 4, obtains 20 and reports that the test passed.
C15_RectangleSetterContract ==
    /\ [][WidthThenHeight =>
            /\ Rectangle_get_area(shape') = last.arg.n * last'.arg.n
            /\ shape'.width = last.arg.n
            /\ shape'.height = last'.arg.n]_vars
    /\ [](RectangleTested =>
            /\ shape = [cls |-> "Rectangle", width |-> 5, height |-> 4]
            /\ last.out[2] = Line("Area esperada: 20, Area real: {}", Num(20))
            /\ last.out[3] = Line("Teste passou!", None))

\* C15 witness: set_height(1) followed set_width(2) on a Rectangle built
\* with other dimensions, and its area is 2
C15_Witness ==
    /\ demo = "lsp_rectangle"
    /\ last.op = "set_height"
    /\ last.target = "Rectangle"
    /\ last.arg = Num(1)
    /\ shape = [cls |-> "Rectangle", width |-> 2, height |-> 1]
    /\ Rectangle_get_area(shape) = 2

\* C16: a Square has width equal to height in every state of the object,
\* from its construction on and after any set_width / set_height calls, so
\* that get_area() is the square of one side.  (Square inherits
\* Rectangle.__init__(width, height): Square(0, 1) is a Square whose width
\* and height differ.)
C16_SquareWidthIsHeight ==
    (demo = "lsp_rectangle" /\ shape.cls = "Square") =>
        /\ shape.width = shape.height
        /\ Rectangle_get_area(shape) = shape.width * shape.width

\* the last step was the statement test_rectangle_area(Square(0))
SquareDemoRan ==
    /\ demo = "lsp_rectangle"
    /\ last.op = "test_rectangle_area"
    /\ last.target = "Square"
    /\ last.arg = Str(<<"demo">>)

\* C17: the substitution check of the demonstration on a square completes:
\* Square(0) is constructed, test_rectangle_area sets width 5 and height 4 on
\* it, obtains area 16 instead of 20 and prints the failure line, without
\* raising.  (Square(0) raises TypeError: __init__ needs width and height.)
C17_SquareDemoReportsViolation ==
    SquareDemoRan =>
        /\ last.raised = "none"
        /\ shape = [cls |-> "Square", width |-> 4, height |-> 4]
        /\ Len(last.out) = 3
        /\ last.out[2] = Line("Area esperada: 20, Area real: {}", Num(16))
        /\ last.out[3] = Line("Teste FALHOU! LSP violado!", None)

-----------------------------------------------------------------------------
(* Call order of UserService, deliveries of the OCP NotificationService *)

\* the positions of the calls of op among the provider calls of the last call
CallsOf(op) == {i \in 1..Len(last.calls) : last.calls[i].op = op}

\* C18: save_user(user) calls connect on the injected database exactly
\* once, as its first call, and then (connect having returned) save_data
\* exactly once with user itself; save_data never precedes connect and
\* nothing else is called; get_user calls neither connect nor save_data.
C18_ConnectThenSave ==
    /\ last.op = "save_user" =>
            /\ Cardinality(CallsOf("connect")) = 1
            /\ last.calls[1].op = "connect"
            /\ last.calls[1].target = database
            /\ \A i \in CallsOf("save_data") : \E j \in CallsOf("connect") : j < i
            /\ CallsOf("connect") \cup CallsOf("save_data") = 1..Len(last.calls)
            /\ database # "FaultyDatabase" => last.calls[1].raised = "none"
            /\ last.calls[1].raised = "none" =>
                    /\ Len(last.calls) = 2
                    /\ last.calls[2].op = "save_data"
                    /\ last.calls[2].target = database
                    /\ last.calls[2].arg = last.arg
    /\ last.op = "get_user" =>
            CallsOf("connect") \cup CallsOf("save_data") = {}

\* C18 witness: save_user on a service with a MySQL database connected and
\* then saved the user it was given
C18_Witness ==
    /\ demo = "dip_user"
    /\ database = "MySQLDatabaseCorrect"
    /\ last.op = "save_user"
    /\ last.raised = "none"
    /\ last.calls[1].op = "connect"
    /\ last.calls[2].op = "save_data"
    /\ last.calls[2].arg = last.arg

\* how many times x occurs in the sequence q
Occurrences(q, x) == Cardinality({i \in 1..Len(q) : q[i] = x})

\* the last call was notify_all on an OCP NotificationService
NotifiedAll == demo = "ocp_notification" /\ last.op = "notify_all"

\* notify_all of the last call delivered to the notifiers given to
\* add_notifier so far, in the order of those calls, up to the first one
\* whose send raised
DeliveredAsAdded ==
    LET given == added[last.target]
        k == Len(given)
        n == Len(last.calls)
    IN  /\ n <= k
        /\ \A i \in 1..n :
                /\ last.calls[i].target = given[i]
                /\ last.calls[i].op = "send"
                /\ last.calls[i].arg = last.arg
        /\ last.raised = "none" =>
                /\ n = k
                /\ \A x \in Notifiers :
                        Cardinality({i \in 1..n : last.calls[i].target = x})
                            = Occurrences(given, x)
        /\ last.raised # "none" => (n >= 1 /\ last.calls[n].raised = last.raised)
        /\ (\A i \in 1..k : given[i] # "FaultyNotifier") => last.raised = "none"
        /\ k = 0 => (last.calls = <<>> /\ last.out = <<>>)

\* C19: after k add_notifier calls on a fresh OCP NotificationService, each
\* notify_all(m) makes exactly k deliveries of m in the order of the
\* add_notifier calls, a notifier added j times receiving j of them (a send
\* that raises ends the call there); notify_all leaves the notifier list as
\* it was, so a repeated notify_all(m) makes the same deliveries; notify_all
\* on a fresh instance makes none.
C19_DeliveriesFollowAdds ==
    /\ [](NotifiedAll => DeliveredAsAdded)
    /\ [][(demo = "ocp_notification" /\ last'.op = "notify_all") =>
            /\ notifiers' = notifiers
            /\ (last.op = "notify_all" /\ last.target = last'.target
                    /\ last.arg = last'.arg) => last' = last]_vars

\* C19 witness: EmailNotifier was added twice to instance A, and
\* notify_all delivered to it twice
C19_Witness ==
    /\ NotifiedAll
    /\ last.target = "A"
    /\ added["A"] = <<"EmailNotifier", "EmailNotifier">>
    /\ last.raised = "none"
    /\ Len(last.calls) = 2
    /\ last.calls[1].target = "EmailNotifier"
    /\ last.calls[2].target = "EmailNotifier"

====
